---- MODULE Spec2Model ----
(***************************************************************************)
(* The Event model of src/models/Event.ts: the mongoose schema eventSchema *)
(* (its defaults, required validators, conditional required validators and *)
(* enum validators), the documents created and updated through it, and the *)
(* registration of the model under the name "Event" in mongoose's          *)
(* process-wide registry `models`.                                         *)
(*                                                                         *)
(* Field values are strings; Undefined stands for a field the object does  *)
(* not carry.  Booleans are "true" / "false".                              *)
(***************************************************************************)
EXTENDS Naturals, FiniteSets, Sequences, TLC

VARIABLES
    cand,        \* the candidate object handed to the model (field -> value)
    pc,          \* "building" | "accepted" | "rejected" | "updated"
    doc,         \* the document constructed from cand (defaults applied, values cast)
    errors,      \* the validation errors of the last operation: {<<path, kind>>}
    store,       \* the persisted Events: _id -> document
    upd,         \* the last status update: [id, from, to], or NoUpdate
    models,      \* mongoose's registry slot models.Event: NoModel or a handle
    loadPc,      \* per evaluation of the module: "pending" | "schema" | "checked" | "done" | "threw"
    found,       \* per evaluation: what `models.Event` evaluated to
    Event,       \* per evaluation: the exported constant Event
    constructed  \* how many times model("Event", schema) registered a new model

vars == <<cand, pc, doc, errors, store, upd,
          models, loadPc, found, Event, constructed>>

valVars == <<cand, pc, doc, errors, store, upd>>
regVars == <<models, loadPc, found, Event, constructed>>

----------------------------------------------------------------------------
(* Bounds *)

\* how many fields of the base candidate one candidate may change
MaxDeviations == 3
\* how many Events are created in one run of the hierarchy specification
MaxEvents == 2
\* how many times the module is evaluated in one process
NumLoads == 4

----------------------------------------------------------------------------
(* The schema *)

Undefined == "undefined"
CastError == "<CastError>"

Fields ==
    {"title", "description", "attendees", "location", "latitude", "longitude",
     "recurring", "isRecurringEventException", "isBaseRecurringEvent",
     "recurrenceRuleId", "baseRecurringEventId", "allDay", "startDate",
     "endDate", "startTime", "endTime", "recurrance", "isPublic",
     "isRegisterable", "creatorId", "admins", "organization", "status"}

\* type: of every path
StringPaths == {"title", "description", "attendees", "location", "recurrance", "status"}
NumberPaths == {"latitude", "longitude"}
BooleanPaths == {"recurring", "isRecurringEventException", "isBaseRecurringEvent",
                 "allDay", "isPublic", "isRegisterable"}
DatePaths == {"startDate", "endDate", "startTime", "endTime"}
ObjectIdPaths == {"recurrenceRuleId", "baseRecurringEventId", "creatorId", "organization"}
ArrayPaths == {"admins"}

\* isRegisterable declared without required: true
RequiredTrueMutant ==
    {"title", "description", "recurring", "isRecurringEventException",
     "isBaseRecurringEvent", "allDay", "startDate", "isPublic",
     "creatorId", "organization", "status"}

\* required: true
RequiredTrue ==
    {"title", "description", "recurring", "isRecurringEventException",
     "isBaseRecurringEvent", "allDay", "startDate", "isPublic",
     "isRegisterable", "creatorId", "organization", "status"}

\* required: function () { return !this.allDay }
RequiredUnlessAllDay == {"startTime", "endTime"}

\* required: function () { return this.recurring }
RequiredIfRecurring == {"recurrance"}

\* the recurrance enum with one value too many
recurranceEnumMutant == {"ONCE", "DAILY", "WEEKLY", "MONTHLY", "YEARLY", "HOURLY"}

\* enum: of recurrance
recurranceEnum == {"ONCE", "DAILY", "WEEKLY", "MONTHLY", "YEARLY"}

\* the status enum with BLOCKED left out
statusEnumMutant == {"ACTIVE", "DELETED"}

\* enum: of status
statusEnum == {"ACTIVE", "BLOCKED", "DELETED"}

EnumPaths == {"recurrance", "status"}

EnumOf(f) == IF f = "recurrance" THEN recurranceEnum ELSE statusEnum

\* the status path declared without its default
DefaultPathsMutant ==
    {"recurring", "isRecurringEventException", "isBaseRecurringEvent",
     "recurrance", "admins"}

\* default: of the paths that declare one; an array path defaults to the empty array
DefaultPaths ==
    {"recurring", "isRecurringEventException", "isBaseRecurringEvent",
     "recurrance", "status", "admins"}

DefaultOf(f) ==
    CASE f = "recurring" -> "false"
      [] f = "isRecurringEventException" -> "false"
      [] f = "isBaseRecurringEvent" -> "false"
      [] f = "recurrance" -> "ONCE"
      [] f = "status" -> "ACTIVE"
      [] f = "admins" -> "[]"
      [] OTHER -> Undefined

----------------------------------------------------------------------------
(* Construction of a document: new Event(candidate) *)

\* a value that is no 24-digit hexadecimal identity does not cast to ObjectId
MalformedIds == {"not-an-id"}

\* a cast that lets every value through
CastMutant(f, v) == v

\* the value a path holds once set: cast to the path's type, or a cast error
Cast(f, v) ==
    IF f \in ObjectIdPaths /\ v \in MalformedIds THEN CastError ELSE v

\* a path the candidate leaves undefined takes its default; a path it sets is cast
Construct(c) ==
    [f \in Fields |->
        IF c[f] = Undefined
        THEN (IF f \in DefaultPaths THEN DefaultOf(f) ELSE Undefined)
        ELSE Cast(f, c[f])]

----------------------------------------------------------------------------
(* Validation of a document: doc.validate() *)

\* return this.allDay
NotAllDayInverted(d) == d["allDay"] = "true"

\* required: true in place of the function
NotAllDayAlways(d) == TRUE

\* !this.allDay
NotAllDay(d) == d["allDay"] # "true"

\* this.recurring
IsRecurring(d) == d["recurring"] = "true"

\* whether the required validator of path f applies to document d
IsRequired(d, f) ==
    \/ f \in RequiredTrue
    \/ f \in RequiredUnlessAllDay /\ NotAllDay(d)
    \/ f \in RequiredIfRecurring /\ IsRecurring(d)

\* the required validator: a String must be non-empty, any other type present
checkRequired(f, v) ==
    /\ v # Undefined
    /\ f \in StringPaths => v # ""

\* the name of a failed required validator: of a path declared required: true,
\* and of a path whose required is a function of the document
RequiredKind(f) ==
    IF f \in RequiredTrue THEN "MissingRequiredField" ELSE "ConditionalRequirementUnmet"

\* an enum validator that runs only when this.recurring holds
enumValidatorMutant(d, f) ==
    f \in EnumPaths /\ IsRecurring(d) => d[f] = Undefined \/ d[f] \in EnumOf(f)

\* the enum validator passes an undefined value
enumValidator(d, f) ==
    f \in EnumPaths => d[f] = Undefined \/ d[f] \in EnumOf(f)

\* the validators of one path, the required validator first; the first failure is reported
validatePath(d, f) ==
    IF d[f] = CastError THEN "MalformedReference"
    ELSE IF IsRequired(d, f) /\ ~checkRequired(f, d[f]) THEN RequiredKind(f)
    ELSE IF ~enumValidator(d, f) THEN "InvalidEnumValue"
    ELSE "ok"

\* every path is validated; the errors are collected by path
validate(d) ==
    {<<f, validatePath(d, f)>> : f \in {g \in Fields : validatePath(d, g) # "ok"}}

----------------------------------------------------------------------------
(* Candidates *)

\* the candidate every candidate of a run is derived from
BaseCandidate ==
    [f \in Fields |->
        CASE f = "title" -> "Standup"
          [] f = "description" -> "daily sync"
          [] f = "allDay" -> "true"
          [] f = "startDate" -> "2024-01-01"
          [] f = "isPublic" -> "true"
          [] f = "isRegisterable" -> "false"
          [] f = "creatorId" -> "u1"
          [] f = "organization" -> "o1"
          [] OTHER -> Undefined]

\* the identities given to created Events, in order of creation
IdSeq == <<"e1", "e2", "e3">>

EventIds == {"e1", "e2"}

\* the values a candidate may give a field
ValuesOf(f) ==
    CASE f = "title" -> {Undefined, "", "Standup"}
      [] f = "description" -> {Undefined, "daily sync"}
      [] f = "attendees" -> {Undefined, "alice"}
      [] f = "location" -> {Undefined, "hall"}
      [] f = "latitude" -> {Undefined, "12.5"}
      [] f = "longitude" -> {Undefined, "77.6"}
      [] f \in {"recurring", "isRecurringEventException", "isBaseRecurringEvent",
                "allDay", "isPublic", "isRegisterable"} -> {Undefined, "true", "false"}
      [] f = "recurrenceRuleId" -> {Undefined, "r1"}
      [] f = "baseRecurringEventId" -> {Undefined} \cup EventIds \cup MalformedIds
      [] f = "startDate" -> {Undefined, "2024-01-01"}
      [] f = "endDate" -> {Undefined, "2024-01-02"}
      [] f = "startTime" -> {Undefined, "09:00"}
      [] f = "endTime" -> {Undefined, "10:00"}
      [] f = "recurrance" ->
            {Undefined, "", "HOURLY", "ONCE", "DAILY", "WEEKLY", "MONTHLY", "YEARLY"}
      [] f = "creatorId" -> {Undefined, "u1", "not-an-id"}
      [] f = "admins" -> {Undefined, "[u1]"}
      [] f = "organization" -> {Undefined, "o1"}
      [] f = "status" -> {Undefined, "", "ARCHIVED", "ACTIVE", "BLOCKED", "DELETED"}

Deviations(c) == {f \in Fields : c[f] # BaseCandidate[f]}

EmptyDoc == [f \in Fields |-> Undefined]

NoUpdate == [id |-> "none", from |-> "none", to |-> "none"]

\* the fields the hierarchy specification varies
HierFields == {"isBaseRecurringEvent", "baseRecurringEventId", "allDay"}

----------------------------------------------------------------------------
(* Creating and updating Events *)

\* the caller puts one more field of the candidate off the base candidate
SetField(f, v) ==
    /\ pc = "building"
    /\ f \notin Deviations(cand)
    /\ v \in ValuesOf(f) \ {BaseCandidate[f]}
    /\ Cardinality(Deviations(cand)) < MaxDeviations
    /\ cand' = [cand EXCEPT ![f] = v]
    /\ UNCHANGED <<pc, doc, errors, store, upd, regVars>>

Insert(s, id, d) ==
    [i \in DOMAIN s \cup {id} |-> IF i = id THEN d ELSE s[i]]

\* Event.create(cand): construct the document, validate it, persist it when valid
Create ==
    /\ pc = "building"
    /\ Cardinality(DOMAIN store) < Len(IdSeq)
    /\ LET d == Construct(cand)
           errs == validate(d)
           id == IdSeq[Cardinality(DOMAIN store) + 1]
       IN  /\ doc' = d
           /\ errors' = errs
           /\ IF errs = {}
              THEN /\ store' = Insert(store, id, d)
                   /\ pc' = "accepted"
              ELSE /\ store' = store
                   /\ pc' = "rejected"
    /\ UNCHANGED <<cand, upd, regVars>>

\* event.status = s; event.save(): validated, and persisted when valid
UpdateStatus(id, s) ==
    /\ pc \in {"accepted", "updated"}
    /\ id \in DOMAIN store
    /\ LET d == [store[id] EXCEPT !["status"] = s]
           errs == validate(d)
       IN  /\ doc' = d
           /\ errors' = errs
           /\ upd' = [id |-> id, from |-> store[id]["status"], to |-> s]
           /\ store' = IF errs = {} THEN [store EXCEPT ![id] = d] ELSE store
    /\ pc' = "updated"
    /\ UNCHANGED <<cand, regVars>>

\* the caller starts a further candidate
NewCandidate ==
    /\ pc \in {"accepted", "rejected"}
    /\ Cardinality(DOMAIN store) < MaxEvents
    /\ cand' = BaseCandidate
    /\ pc' = "building"
    /\ UNCHANGED <<doc, errors, store, upd, regVars>>

----------------------------------------------------------------------------
(* Registration of the model: the module body, evaluated by each load *)

NoModel == 0
Loads == 1 .. NumLoads

\* evaluations that yield to each other between their steps
CallStackFreeMutant(i) == TRUE

\* the module body holds no await: an evaluation runs to completion before
\* another one starts
CallStackFree(i) ==
    \A j \in Loads \ {i} : loadPc[j] \in {"pending", "done", "threw"}

\* eventModel() called whatever models.Event holds
EvaluatesRightMutant(m) == TRUE

\* models.Event || ... : the right operand is evaluated when the left is falsy
EvaluatesRight(m) == m = NoModel

\* const eventSchema = new Schema(...); createLoggingMiddleware(eventSchema, "Event")
LoadSchema(i) ==
    /\ loadPc[i] = "pending"
    /\ CallStackFree(i)
    /\ loadPc' = [loadPc EXCEPT ![i] = "schema"]
    /\ UNCHANGED <<models, found, Event, constructed, valVars>>

\* models.Event
ReadModels(i) ==
    /\ loadPc[i] = "schema"
    /\ CallStackFree(i)
    /\ found' = [found EXCEPT ![i] = models]
    /\ loadPc' = [loadPc EXCEPT ![i] = "checked"]
    /\ UNCHANGED <<models, Event, constructed, valVars>>

\* export const Event = models.Event
ReuseModel(i) ==
    /\ loadPc[i] = "checked"
    /\ CallStackFree(i)
    /\ ~EvaluatesRight(found[i])
    /\ Event' = [Event EXCEPT ![i] = found[i]]
    /\ loadPc' = [loadPc EXCEPT ![i] = "done"]
    /\ UNCHANGED <<models, found, constructed, valVars>>

\* export const Event = eventModel(): model("Event", eventSchema) registers the
\* model, or throws OverwriteModelError when the name is taken by another schema
RegisterModel(i) ==
    /\ loadPc[i] = "checked"
    /\ CallStackFree(i)
    /\ EvaluatesRight(found[i])
    /\ IF models = NoModel
       THEN /\ models' = i
            /\ constructed' = constructed + 1
            /\ Event' = [Event EXCEPT ![i] = i]
            /\ loadPc' = [loadPc EXCEPT ![i] = "done"]
       ELSE /\ loadPc' = [loadPc EXCEPT ![i] = "threw"]
            /\ UNCHANGED <<models, constructed, Event>>
    /\ UNCHANGED <<found, valVars>>

----------------------------------------------------------------------------
(* Specifications *)

InitVal ==
    /\ cand = BaseCandidate
    /\ pc = "building"
    /\ doc = EmptyDoc
    /\ errors = {}
    /\ store = [i \in {} |-> EmptyDoc]
    /\ upd = NoUpdate

\* no evaluation of the module has started
InitFresh ==
    /\ models = NoModel
    /\ loadPc = [i \in Loads |-> "pending"]
    /\ found = [i \in Loads |-> NoModel]
    /\ Event = [i \in Loads |-> NoModel]
    /\ constructed = 0

\* the first evaluation of the module has completed
InitLoaded ==
    /\ models = 1
    /\ loadPc = [i \in Loads |-> IF i = 1 THEN "done" ELSE "pending"]
    /\ found = [i \in Loads |-> NoModel]
    /\ Event = [i \in Loads |-> IF i = 1 THEN 1 ELSE NoModel]
    /\ constructed = 1

\* one Event: any candidate within MaxDeviations of the base, then status updates
Init == InitVal /\ InitLoaded

Next ==
    \/ \E f \in Fields : \E v \in ValuesOf(f) : SetField(f, v)
    \/ Create
    \/ \E id \in DOMAIN store : \E s \in ValuesOf("status") : UpdateStatus(id, s)

Spec == Init /\ [][Next]_vars

\* several Events, varying the fields of the recurrence hierarchy
NextHier ==
    \/ \E f \in HierFields : \E v \in ValuesOf(f) : SetField(f, v)
    \/ Create
    \/ NewCandidate

SpecHier == Init /\ [][NextHier]_vars

\* repeated evaluation of the module in one process
InitReg == InitVal /\ InitFresh

NextReg ==
    \E i \in Loads :
        \/ LoadSchema(i)
        \/ ReadModels(i)
        \/ ReuseModel(i)
        \/ RegisterModel(i)

SpecReg == InitReg /\ [][NextReg]_vars

----------------------------------------------------------------------------
(* Properties *)

\* Event.create has returned for the current candidate
Created == pc \in {"accepted", "rejected"}

ErrorPaths == {e[1] : e \in errors}

\* C1: a candidate with allDay = false that lacks startTime or endTime is
\* rejected, with ConditionalRequirementUnmet on each of the two it lacks,
\* whatever its other fields hold.
C1_TimesRequiredUnlessAllDay ==
    Created /\ cand["allDay"] = "false" =>
        \A f \in {"startTime", "endTime"} :
            cand[f] = "undefined" =>
                /\ pc = "rejected"
                /\ <<f, "ConditionalRequirementUnmet">> \in errors

\* a timed candidate with a startTime and no endTime was rejected for the endTime alone
C1_Witness ==
    /\ pc = "rejected"
    /\ cand["allDay"] = "false"
    /\ cand["startTime"] = "09:00"
    /\ cand["endTime"] = "undefined"
    /\ errors = {<<"endTime", "ConditionalRequirementUnmet">>}

\* C2: with allDay = true no error is ever reported on startTime or endTime,
\* so a candidate that lacks both and is valid in its other fields is accepted.
C2_AllDayNeedsNoTimes ==
    Created /\ cand["allDay"] = "true" =>
        /\ ErrorPaths \cap {"startTime", "endTime"} = {}
        /\ (ErrorPaths = {}) = (pc = "accepted")
        /\ pc = "rejected" => ErrorPaths \ {"startTime", "endTime"} # {}

\* an all-day candidate without startTime and endTime was accepted
C2_Witness ==
    /\ pc = "accepted"
    /\ cand["allDay"] = "true"
    /\ cand["startTime"] = "undefined"
    /\ cand["endTime"] = "undefined"
    /\ "e1" \in DOMAIN store

\* C3 as stated: a candidate with recurring = true whose recurrance value is
\* not one of the five is rejected with InvalidEnumValue.
C3_Original ==
    Created /\ cand["recurring"] = "true"
            /\ cand["recurrance"] \notin
                 {"undefined", "ONCE", "DAILY", "WEEKLY", "MONTHLY", "YEARLY"} =>
        /\ pc = "rejected"
        /\ <<"recurrance", "InvalidEnumValue">> \in errors

\* C3 as amended: with recurring = true, a non-empty recurrance outside the
\* five values is rejected with InvalidEnumValue, and the empty string is
\* rejected by the required validator, which runs first, with
\* ConditionalRequirementUnmet.
C3_RecurringEnum ==
    Created /\ cand["recurring"] = "true" =>
        /\ cand["recurrance"] \notin
             {"undefined", "", "ONCE", "DAILY", "WEEKLY", "MONTHLY", "YEARLY"} =>
                /\ pc = "rejected"
                /\ <<"recurrance", "InvalidEnumValue">> \in errors
        /\ cand["recurrance"] = "" =>
                /\ pc = "rejected"
                /\ <<"recurrance", "ConditionalRequirementUnmet">> \in errors
                /\ <<"recurrance", "InvalidEnumValue">> \notin errors

\* a recurring candidate with recurrance HOURLY was rejected for it
C3_Witness ==
    /\ pc = "rejected"
    /\ cand["recurring"] = "true"
    /\ cand["recurrance"] = "HOURLY"
    /\ errors = {<<"recurrance", "InvalidEnumValue">>}

\* the value each of the five defaulted fields is declared to default to
C4_Declared(f) ==
    CASE f = "recurring" -> "false"
      [] f = "isRecurringEventException" -> "false"
      [] f = "isBaseRecurringEvent" -> "false"
      [] f = "recurrance" -> "ONCE"
      [] f = "status" -> "ACTIVE"

\* C4: an accepted candidate's result carries the declared default in every
\* defaulted field the candidate left out and the candidate's own value in
\* every one it gave; a candidate without status is never charged with a
\* missing status.
C4_DefaultsApplied ==
    /\ pc = "accepted" =>
         \A f \in {"recurring", "isRecurringEventException",
                   "isBaseRecurringEvent", "recurrance", "status"} :
            /\ cand[f] = "undefined" => doc[f] = C4_Declared(f)
            /\ cand[f] # "undefined" => doc[f] = cand[f]
    /\ Created /\ cand["status"] = "undefined" => "status" \notin ErrorPaths
    /\ Created /\ cand["status"] = "undefined" /\ ErrorPaths = {} =>
         pc = "accepted" /\ doc["status"] = "ACTIVE"

\* a candidate without status that set recurring was accepted, ACTIVE and still recurring
C4_Witness ==
    /\ pc = "accepted"
    /\ cand["status"] = "undefined"
    /\ doc["status"] = "ACTIVE"
    /\ cand["recurring"] = "true"
    /\ doc["recurring"] = "true"
    /\ cand["recurrance"] = "undefined"
    /\ doc["recurrance"] = "ONCE"
    /\ doc["isBaseRecurringEvent"] = "false"

C5_Required ==
    {"title", "description", "allDay", "startDate", "isPublic",
     "isRegisterable", "creatorId", "organization"}

C5_Optional ==
    {"attendees", "location", "latitude", "longitude", "endDate",
     "recurrenceRuleId", "baseRecurringEventId", "admins"}

\* C5: a candidate lacking any of the eight always-required fields is
\* rejected, with MissingRequiredField on each one it lacks; a candidate that
\* gives exactly those eight, with allDay = true, and no optional field is
\* accepted.
C5_RequiredAlways ==
    Created =>
        /\ \A f \in C5_Required :
              cand[f] = "undefined" =>
                  /\ pc = "rejected"
                  /\ <<f, "MissingRequiredField">> \in errors
        /\ (/\ \A f \in C5_Required : cand[f] \notin {"undefined", "", "not-an-id"}
            /\ \A f \in Fields \ C5_Required : cand[f] = "undefined"
            /\ cand["allDay"] = "true")
           => pc = "accepted" /\ \A f \in C5_Optional \ {"admins"} : doc[f] = "undefined"

\* a candidate lacking only isRegisterable and organization was rejected for both
C5_Witness ==
    /\ pc = "rejected"
    /\ cand["isRegisterable"] = "undefined"
    /\ cand["organization"] = "undefined"
    /\ errors = {<<"isRegisterable", "MissingRequiredField">>,
                 <<"organization", "MissingRequiredField">>}

Done == {i \in Loads : loadPc[i] = "done"}

\* C6: however often the module is evaluated, no evaluation throws
\* OverwriteModelError, the model is registered at most once, and every
\* completed evaluation exports the handle the first one registered.
C6_RegisterOnce ==
    /\ \A i \in Loads : loadPc[i] # "threw"
    /\ constructed <= 1
    /\ Done # {} => constructed = 1 /\ models # 0
    /\ \A i \in Done : Event[i] = models
    /\ \A i, j \in Done : Event[i] = Event[j]

\* three evaluations have completed on one registration
C6_Witness ==
    /\ Cardinality(Done) >= 3
    /\ constructed = 1
    /\ \A i \in Done : Event[i] = models

InProgress == {i \in Loads : loadPc[i] \in {"schema", "checked"}}

\* C7: evaluations that are pending together never overlap between reading
\* the registry slot and storing into it: at most one is in progress, at most
\* one ever finds the slot empty, and each one that completes exports the one
\* stored handle.
C7_CheckThenSetExclusive ==
    /\ Cardinality(InProgress) <= 1
    /\ Cardinality({i \in Loads : loadPc[i] \in {"checked", "done", "threw"}
                                   /\ found[i] = 0}) <= 1
    /\ \A i \in InProgress : loadPc[i] = "checked" => found[i] = models
    /\ \A i \in Loads : loadPc[i] \in {"done", "threw"} =>
          loadPc[i] = "done" /\ Event[i] = models /\ models # 0

\* the second evaluation registered the model, the first one reused it, and a
\* third is between its read of the slot and its export
C7_Witness ==
    /\ models = 2
    /\ loadPc[1] = "done"
    /\ Event[1] = 2
    /\ loadPc[3] = "checked"
    /\ found[3] = 2

\* C8: every persisted Event has a status among ACTIVE, BLOCKED, DELETED;
\* a validated update to one of the three is accepted from any of the three,
\* and an update to anything else is rejected and leaves the status as it was.
C8_StatusStates ==
    /\ \A id \in DOMAIN store : store[id]["status"] \in {"ACTIVE", "BLOCKED", "DELETED"}
    /\ pc = "updated" =>
         /\ upd.from \in {"ACTIVE", "BLOCKED", "DELETED"}
         /\ upd.to \in {"ACTIVE", "BLOCKED", "DELETED"} =>
               errors = {} /\ store[upd.id]["status"] = upd.to
         /\ upd.to \notin {"ACTIVE", "BLOCKED", "DELETED"} =>
               /\ "status" \in ErrorPaths
               /\ store[upd.id]["status"] = upd.from

\* a DELETED Event was updated back to BLOCKED
C8_Witness ==
    /\ pc = "updated"
    /\ upd.from = "DELETED"
    /\ upd.to = "BLOCKED"
    /\ errors = {}
    /\ store["e1"]["status"] = "BLOCKED"

\* C9 as stated: every persisted Event with a baseRecurringEventId points to
\* another persisted Event that is a base recurring event and has no
\* baseRecurringEventId of its own.
C9_Original ==
    \A id \in DOMAIN store :
        store[id]["baseRecurringEventId"] # "undefined" =>
            LET b == store[id]["baseRecurringEventId"]
            IN  /\ b \in DOMAIN store
                /\ b # id
                /\ store[b]["isBaseRecurringEvent"] = "true"
                /\ store[b]["baseRecurringEventId"] = "undefined"

\* C9 as amended: baseRecurringEventId is an optional single reference of
\* which only the shape is validated: a persisted Event holds none or one
\* well-formed identity, a malformed one is rejected with MalformedReference,
\* and a well-formed one is never an error, whatever it points to.
C9_ReferenceShapeOnly ==
    /\ \A id \in DOMAIN store :
          store[id]["baseRecurringEventId"] \in {"undefined", "e1", "e2"}
    /\ Created /\ cand["baseRecurringEventId"] = "not-an-id" =>
          /\ pc = "rejected"
          /\ <<"baseRecurringEventId", "MalformedReference">> \in errors
    /\ Created /\ cand["baseRecurringEventId"] \in {"undefined", "e1", "e2"} =>
          "baseRecurringEventId" \notin ErrorPaths

\* two persisted Events that are no base recurring events reference each other
C9_Witness ==
    /\ DOMAIN store = {"e1", "e2"}
    /\ store["e1"]["baseRecurringEventId"] = "e2"
    /\ store["e2"]["baseRecurringEventId"] = "e1"
    /\ store["e1"]["isBaseRecurringEvent"] = "false"
    /\ store["e2"]["isBaseRecurringEvent"] = "false"

\* C10: the enum of recurrance is checked whatever recurring holds: with
\* recurring false or left out, a recurrance outside the five values is
\* rejected with InvalidEnumValue; with recurring = true and recurrance left
\* out, the default ONCE is in place before the required validator runs, so
\* recurrance is no error and the result carries ONCE.
C10_EnumIndependentOfRecurring ==
    Created =>
        /\ (/\ cand["recurring"] \in {"false", "undefined"}
            /\ cand["recurrance"] \notin
                 {"undefined", "ONCE", "DAILY", "WEEKLY", "MONTHLY", "YEARLY"})
           => pc = "rejected" /\ <<"recurrance", "InvalidEnumValue">> \in errors
        /\ (cand["recurring"] = "true" /\ cand["recurrance"] = "undefined")
           => /\ "recurrance" \notin ErrorPaths
              /\ doc["recurrance"] = "ONCE"
              /\ ErrorPaths = {} => pc = "accepted"

\* a candidate that left recurring out was rejected for its recurrance alone
C10_Witness ==
    /\ pc = "rejected"
    /\ cand["recurring"] = "undefined"
    /\ cand["recurrance"] = "HOURLY"
    /\ errors = {<<"recurrance", "InvalidEnumValue">>}

====
